---------------------------- MODULE Spec2Model ----------------------------
(***************************************************************************)
(* Model of the region-hierarchy builder (regions.py, class RegionCodes)   *)
(* and of the multi-locale number parser (lookup_number.py).               *)
(*                                                                         *)
(* Python values are modelled as follows.  A dict is a function whose      *)
(* DOMAIN is the dict's key set; d.update(e) is  e @@ d.  A list is a      *)
(* sequence.  Node dicts are shared by reference in the source (the same   *)
(* dict sits in `out` and in its parent's children list); the model keeps  *)
(* every node once, in `out`, and a children list holds the nodes' keys.   *)
(* None is the string "None"; None and the empty string are the falsy      *)
(* values of the fields modelled here.                                     *)
(***************************************************************************)
EXTENDS Integers, Sequences, FiniteSets, TLC

VARIABLES
    cells,          \* the M49 page: one record of cell texts per <tr>
    alpha_2_codes,  \* the ISO 3166-1 page: the alpha-3 -> alpha-2 dict it yields
    rows,           \* parse_table_to_list's result
    out,            \* list_to_tree's registry: key -> node dict
    regions,        \* _scrape_regions' result (the RegionMap)
    pc,             \* position in _scrape_regions
    file,           \* the file at regions_file_path
    self_dict,      \* the RegionCodes object's __dict__, its 'regions' entry
    io,             \* loads, page fetches and writes made so far
    call,           \* what the last attribute read did and gave
    calls,          \* attribute reads made so far
    phone_number,   \* parse_single_number's first argument
    locale,         \* parse_single_number's second argument
    final_result    \* what parse_single_number gave

treeVars == <<rows, out, regions, pc>>

pageVars == <<cells, alpha_2_codes>>

builderVars == <<file, self_dict, io, call, calls>>

parseVars == <<phone_number, locale, final_result>>

vars == <<cells, alpha_2_codes, rows, out, regions, pc, file, self_dict, io, call,
          calls, phone_number, locale, final_result>>

-----------------------------------------------------------------------------
(* Bounds of the model. *)

\* rows of the scraped M49 table
MaxRows == 4

\* reads of the regions attribute in one run
MaxCalls == 3

\* candidate locales handed to parse_single_number
MaxLocales == 2

-----------------------------------------------------------------------------
(* Python values. *)

None == "None"

Truthy(v) == v # None /\ v # ""

EmptyDict == [k \in {} |-> <<>>]

\* dict.setdefault(key, default), as a new dict
setdefault(d, key, default) ==
    IF key \in DOMAIN d THEN d ELSE (key :> default) @@ d

\* d.update(e), as a new dict: e's entries win
update(d, e) == e @@ d

Range(f) == {f[x] : x \in DOMAIN f}

-----------------------------------------------------------------------------
(* The inputs: what the two scraped pages can hold. *)

IdOf(i) == ToString(i)

Ids == {IdOf(i) : i \in 1..MaxRows}

Names == <<"World", "Africa", "Nigeria", "Chad", "Kenya">>

NameOf(i) == IF i <= Len(Names) THEN Names[i] ELSE "Area" \o ToString(i)

Alpha3Codes == <<"GHA", "TCD", "NGA", "KEN", "EGY">>

\* the alpha-3 code the k-th table row carries when it is a country row
Alpha3At(k) == Alpha3Codes[((k - 1) % Len(Alpha3Codes)) + 1]

FullTable ==
    [a \in {"NGA", "TCD", "KEN", "GHA", "EGY"} |->
        CASE a = "NGA" -> "NG" [] a = "TCD" -> "TD" [] a = "KEN" -> "KE"
          [] a = "GHA" -> "GH" [] OTHER -> "EG"]

\* a table in which some countries of the M49 page are missing
PartialTable == [a \in {"GHA", "NGA", "EGY"} |-> FullTable[a]]

Tables == {FullTable, PartialTable}

Cell(i, p, a) == [id |-> IdOf(i), parent_id |-> p, name |-> NameOf(i), alpha3 |-> a]

\* Tables whose rows carry pairwise distinct ids: the k-th <tr> has the k-th
\* identifier as data-tt-id; its data-tt-parent-id is absent or any identifier
\* (its own, an earlier or a later row's, or no row's); its ISO-alpha3 cell is
\* empty or a code.
DistinctAt(k) ==
    {Cell(k, p, a) : p \in {None} \cup Ids, a \in {None, Alpha3At(k)}}

\* Tables whose rows may repeat an id: every row is a country row.
RepeatingAt(k) ==
    {Cell(i, p, Alpha3At(k)) : i \in 1..k, p \in {None} \cup Ids}

UsedIds(s) == {s[k].id : k \in 1..Len(s)}

\* Ids are labels, so every list of ids is, up to a renaming, one in which
\* each row's id is one used before it or the next unused one.
NextId(s, c) == c.id \in UsedIds(s) \cup {IdOf(Cardinality(UsedIds(s)) + 1)}

\* the sequences of at most n cell records
RECURSIVE Lists(_, _)
Lists(n, repeating) ==
    IF n = 0 THEN {<<>>}
    ELSE LET shorter == Lists(n - 1, repeating)
             longest == {t \in shorter : Len(t) = n - 1}
         IN  shorter \cup
             IF repeating
             THEN {Append(sc[1], sc[2]) :
                      sc \in {x \in longest \X RepeatingAt(n) : NextId(x[1], x[2])}}
             ELSE {Append(s, c) : s \in longest, c \in DistinctAt(n)}

-----------------------------------------------------------------------------
(* _scrape_regions and its nested functions. *)

\* mutant: on a KeyError the alpha-3 code is kept as the row's code
ParseRow_KeepAlpha3(c, table) ==
    [id |-> c.id, parent_id |-> c.parent_id, name |-> c.name, alpha3 |-> c.alpha3,
     alpha2 |-> IF c.alpha3 \in DOMAIN table THEN table[c.alpha3] ELSE c.alpha3]

\* parse_table_to_list, the body of the loop for one <tr>
ParseRow(c, table) ==
    [id |-> c.id, parent_id |-> c.parent_id, name |-> c.name, alpha3 |-> c.alpha3,
     alpha2 |-> IF c.alpha3 \in DOMAIN table THEN table[c.alpha3] ELSE None]

parse_table_to_list(cs, table) == [k \in 1..Len(cs) |-> ParseRow(cs[k], table)]

RootKey == "root"

RootNode ==
    [id |-> "0", parent_id |-> "0", root_name |-> "Root node", alpha2 |-> None,
     children |-> <<>>]

Placeholder == [children |-> <<>>]

\* pid = item['parent_id'] or 'root'
Pid(item) == IF Truthy(item.parent_id) THEN item.parent_id ELSE RootKey

\* mutant: out[item['id']] = {'children': []} in place of setdefault
TreeStep_Overwrite(o, item) ==
    LET pid == Pid(item)
        o1  == setdefault(o, pid, Placeholder)
        o2  == (item.id :> Placeholder) @@ o1
        o3  == [o2 EXCEPT ![item.id] = update(@, item)]
    IN  [o3 EXCEPT ![pid].children = Append(@, item.id)]

\* mutant: a row whose parent has not been seen yet is hung under the root too
TreeStep_AdoptOrphans(o, item) ==
    LET pid == Pid(item)
        o1  == setdefault(o, pid, Placeholder)
        o2  == setdefault(o1, item.id, Placeholder)
        o3  == [o2 EXCEPT ![item.id] = update(@, item)]
        o4  == [o3 EXCEPT ![pid].children = Append(@, item.id)]
    IN  IF pid \in DOMAIN o THEN o4
        ELSE [o4 EXCEPT ![RootKey].children = Append(@, item.id)]

\* one iteration of list_to_tree's loop
TreeStep(o, item) ==
    LET pid == Pid(item)
        o1  == setdefault(o, pid, Placeholder)
        o2  == setdefault(o1, item.id, Placeholder)
        o3  == [o2 EXCEPT ![item.id] = update(@, item)]
    IN  [o3 EXCEPT ![pid].children = Append(@, item.id)]

RECURSIVE TreeLoop(_, _, _)
TreeLoop(o, rs, k) ==
    IF k > Len(rs) THEN o ELSE TreeLoop(TreeStep(o, rs[k]), rs, k + 1)

\* list_to_tree's registry after the loop; the function returns out['root']
list_to_tree(rs) == TreeLoop((RootKey :> RootNode), rs, 1)

RECURSIVE get_country_codes_for(_, _)
RECURSIVE ChildCodes(_, _, _)

\* the for loop of get_country_codes_for, from the k-th child on
ChildCodes(o, children, k) ==
    IF k > Len(children) THEN <<>>
    ELSE get_country_codes_for(o, children[k]) \o ChildCodes(o, children, k + 1)

\* mutant: a node's own code is taken only when it has no children
get_country_codes_for_LeafOnly(o, key) ==
    LET data_subtree == o[key]
    IN  IF Len(data_subtree.children) > 0
        THEN ChildCodes(o, data_subtree.children, 1)
        ELSE IF Truthy(data_subtree.alpha2) THEN <<data_subtree.alpha2>> ELSE <<>>

get_country_codes_for(o, key) ==
    LET data_subtree == o[key]
        own == IF Truthy(data_subtree.alpha2) THEN <<data_subtree.alpha2>> ELSE <<>>
    IN  own \o ChildCodes(o, data_subtree.children, 1)

RECURSIVE get_all_regions_data(_, _)
RECURSIVE RegionLoop(_, _, _, _)

\* mutant: the regions below a region are not collected
RegionLoop_NoDescend(o, region_list, k, region_data) ==
    IF k > Len(region_list) THEN region_data
    ELSE LET region == o[region_list[k]]
             d2 == update(region_data,
                          (region.name :> get_country_codes_for(o, region_list[k])))
         IN  RegionLoop(o, region_list, k + 1,
                        IF Len(region.children) > 0 THEN d2 ELSE region_data)

\* mutant: the test for children is missing
RegionLoop_NoLeafCheck(o, region_list, k, region_data) ==
    IF k > Len(region_list) THEN region_data
    ELSE LET region == o[region_list[k]]
             d1 == update(region_data, get_all_regions_data(o, region.children))
             d2 == update(d1, (region.name :> get_country_codes_for(o, region_list[k])))
         IN  RegionLoop(o, region_list, k + 1, d2)

\* the for loop of get_all_regions_data, from the k-th region on
RegionLoop(o, region_list, k, region_data) ==
    IF k > Len(region_list) THEN region_data
    ELSE LET region == o[region_list[k]]
             d1 == update(region_data, get_all_regions_data(o, region.children))
             d2 == update(d1, (region.name :> get_country_codes_for(o, region_list[k])))
         IN  RegionLoop(o, region_list, k + 1,
                        IF Len(region.children) > 0 THEN d2 ELSE region_data)

get_all_regions_data(o, region_list) == RegionLoop(o, region_list, 1, EmptyDict)

\* The recursion of get_all_regions_data and get_country_codes_for below node
\* `key` nests more than `fuel` calls.  A registry built from n rows holds at
\* most n row nodes, so nesting deeper than n means the recursion has no end
\* of its own: the interpreter cuts it off with a RecursionError.
RECURSIVE Overflows(_, _, _)
Overflows(o, key, fuel) ==
    IF fuel = 0 THEN TRUE
    ELSE \E k \in 1..Len(o[key].children) : Overflows(o, o[key].children[k], fuel - 1)

\* lines 175-177 on the registry o built from n rows:
\* world_tree = root['children'][0], then get_all_regions_data(its children)
FlattenResult(o, n) ==
    IF Len(o[RootKey].children) = 0
    THEN [raised |-> TRUE, exc |-> "IndexError", value |-> EmptyDict]
    ELSE LET world_tree == o[RootKey].children[1]
         IN  IF Overflows(o, world_tree, n + 1)
             THEN [raised |-> TRUE, exc |-> "RecursionError", value |-> EmptyDict]
             ELSE [raised |-> FALSE, exc |-> None,
                   value |-> get_all_regions_data(o, o[world_tree].children)]

-----------------------------------------------------------------------------
(* RegionCodes: loading, generating and saving the RegionMap. *)

AbsentFile == [kind |-> "absent", data |-> EmptyDict]

MalformedFile == [kind |-> "malformed", data |-> EmptyDict]

UnreadableFile == [kind |-> "unreadable", data |-> EmptyDict]

YamlFile(m) == [kind |-> "yaml", data |-> m]

Ok(v) == [raised |-> FALSE, exc |-> None, value |-> v]

Raise(e) == [raised |-> TRUE, exc |-> e, value |-> EmptyDict]

\* _load_regions: open(path, 'r') and yaml.safe_load
load_regions(f) ==
    CASE f.kind = "yaml"       -> Ok(f.data)
      [] f.kind = "absent"     -> Raise("FileNotFoundError")
      [] f.kind = "unreadable" -> Raise("PermissionError")
      [] OTHER                 -> Raise("YAMLError")

\* _save_regions: open(path, 'w') and yaml.safe_dump; the outcome and the file
save_regions(f, m, writable) ==
    IF writable
    THEN [raised |-> FALSE, exc |-> None, file |-> YamlFile(m)]
    ELSE [raised |-> TRUE, exc |-> "OSError", file |-> f]

\* _scrape_alpha_2_codes: requests.get of the ISO 3166-1 page, then the table
scrape_alpha_2_codes(up, table) == IF up THEN Ok(table) ELSE Raise("RequestException")

\* _scrape_regions: requests.get of the M49 page, then tree build and flatten
scrape_regions(up, cs, alpha) ==
    IF up
    THEN FlattenResult(list_to_tree(parse_table_to_list(cs, alpha)), Len(cs))
    ELSE Raise("RequestException")

\* What a call did: its outcome, the file it leaves, its log records, and the
\* loads, fetches and writes it made.
Did(res, f, log, loads, fetches, writes, wrote) ==
    [raised |-> res.raised, exc |-> res.exc, value |-> res.value, file |-> f,
     log |-> log, loads |-> loads, fetches |-> fetches, writes |-> writes,
     wrote |-> wrote, load |-> "no", generated |-> fetches > 0]

\* _generate_regions, in the environment env (which pages answer, whether
\* the file can be written)
generate_regions(f, env, cs, table) ==
    LET alpha  == scrape_alpha_2_codes(env.alpha_up, table)
        result == scrape_regions(env.m49_up, cs, alpha.value)
        saved  == save_regions(f, result.value, env.writable)
    IN  IF alpha.raised THEN Did(alpha, f, <<"info">>, 0, 1, 0, "no")
        ELSE IF result.raised THEN Did(result, f, <<"info">>, 0, 2, 0, "no")
        ELSE IF saved.raised
             THEN Did(Raise(saved.exc), f, <<"info", "debug">>, 0, 2, 1, "failed")
             ELSE Did(result, saved.file, <<"info", "debug">>, 0, 2, 1, "ok")

\* mutant: the load failure is not caught
get_regions_NoCatch(f, env, cs, table) ==
    LET loaded == load_regions(f)
    IN  [Did(loaded, f, <<"debug">>, 1, 0, 0, "no") EXCEPT
            !.load = IF loaded.raised THEN "failed" ELSE "ok"]

\* _get_regions
get_regions(f, env, cs, table) ==
    LET loaded == load_regions(f)
        gen    == generate_regions(f, env, cs, table)
    IN  IF ~loaded.raised
        THEN [Did(loaded, f, <<"debug">>, 1, 0, 0, "no") EXCEPT !.load = "ok"]
        ELSE [gen EXCEPT !.log = <<"debug", "warning">> \o @, !.loads = 1,
                         !.load = "failed"]

\* mutant: the result is not kept
store_Nothing(d, name, result) == d

\* self.__dict__[name] = result
store(d, name, result) == (name :> result) @@ d

Environments == [alpha_up : BOOLEAN, m49_up : BOOLEAN, writable : BOOLEAN]

NoCall ==
    [attr |-> None, via |-> None, raised |-> FALSE, exc |-> None, value |-> EmptyDict,
     log |-> <<>>, load |-> "no", generated |-> FALSE, wrote |-> "no",
     env |-> [alpha_up |-> TRUE, m49_up |-> TRUE, writable |-> TRUE]]

NoIo == [loads |-> 0, fetches |-> 0, writes |-> 0]

-----------------------------------------------------------------------------
(* lookup_number.py: a number against several candidate locales. *)

Locales == {"US", "GB", "NG"}

\* What phonenumbers.parse and is_valid_number make of a number: for the
\* parse without a locale (None) and for each locale, a valid number, a
\* NumberParseException or an invalid number (ValueError, line 88).
Outcomes == {"valid", "NumberParseException", "ValueError"}

PhoneNumbers == [text : {"5551234"}, parses : [Locales \cup {None} -> Outcomes]]

\* _parse_single_number_single_locale
parse_single_locale(number, loc) ==
    IF number.parses[loc] = "valid"
    THEN Ok([raw_input |-> number.text, assumed_local_locale |-> loc, comment |-> ""])
    ELSE Raise(number.parses[loc])

\* the for loop of lines 60-64, from the k-th candidate on
RECURSIVE CandidateResults(_, _, _)
CandidateResults(number, locs, k) ==
    IF k > Len(locs) THEN <<>>
    ELSE LET r == parse_single_locale(number, locs[k])
         IN  (IF r.raised THEN <<>> ELSE <<r.value>>)
                \o CandidateResults(number, locs, k + 1)

\* The locale argument: None, or a list of locales.
NoLocale == [is_none |-> TRUE, items |-> <<>>]

LocaleList(items) == [is_none |-> FALSE, items |-> items]

\* `if locale:` - None and the empty list are falsy
LocaleTruthy(locs) == ~locs.is_none /\ locs.items # <<>>

NeedsReview(number) == [raw_input |-> number.text, comment |-> "Needs manual review"]

\* parse_single_number
parse_single_number(number, locs) ==
    LET first   == parse_single_locale(number, None)
        results == IF ~first.raised THEN <<first.value>>
                   ELSE IF LocaleTruthy(locs) THEN CandidateResults(number, locs.items, 1)
                   ELSE <<>>
    IN  IF Len(results) = 0
        THEN \* line 68 iterates over locale to build the warning
             IF locs.is_none THEN Raise("TypeError") ELSE Ok(NeedsReview(number))
        ELSE IF Len(results) > 1 THEN Ok(NeedsReview(number))
        ELSE Ok(results[1])

RECURSIVE LocaleLists(_)
LocaleLists(n) ==
    IF n = 0 THEN {<<>>}
    ELSE LET shorter == LocaleLists(n - 1)
         IN  shorter \cup
             {Append(s, l) : s \in {t \in shorter : Len(t) = n - 1}, l \in Locales}

NotParsed == [raised |-> FALSE, exc |-> None, value |-> [pending |-> TRUE]]

-----------------------------------------------------------------------------
(* States in which a part of the program has not run. *)

TreeIdle == rows = <<>> /\ out = EmptyDict /\ regions = EmptyDict

BuilderIdle ==
    /\ file = AbsentFile
    /\ self_dict = EmptyDict
    /\ io = NoIo
    /\ call = NoCall
    /\ calls = 0

ParseIdle == phone_number = None /\ locale = NoLocale /\ final_result = NotParsed

-----------------------------------------------------------------------------
(* The run of _scrape_regions on one pair of scraped pages. *)

InitTree ==
    /\ cells \in Lists(MaxRows, FALSE)
    /\ alpha_2_codes \in Tables
    /\ TreeIdle /\ pc = "parse"
    /\ BuilderIdle /\ ParseIdle

ParseTableToList ==
    /\ pc = "parse"
    /\ rows' = parse_table_to_list(cells, alpha_2_codes)
    /\ pc' = "tree"
    /\ UNCHANGED <<out, regions, pageVars, builderVars, parseVars>>

ListToTree ==
    /\ pc = "tree"
    /\ out' = list_to_tree(rows)
    /\ pc' = "flatten"
    /\ UNCHANGED <<rows, regions, pageVars, builderVars, parseVars>>

Flatten ==
    /\ pc = "flatten"
    /\ LET r == FlattenResult(out, Len(rows))
       IN  /\ pc' = IF r.raised THEN r.exc ELSE "done"
           /\ regions' = r.value
    /\ UNCHANGED <<rows, out, pageVars, builderVars, parseVars>>

NextTree == ParseTableToList \/ ListToTree \/ Flatten

SpecTree == InitTree /\ [][NextTree]_vars

\* the same run on tables whose rows may repeat an id
InitIds ==
    /\ cells \in Lists(MaxRows, TRUE)
    /\ alpha_2_codes = FullTable
    /\ TreeIdle /\ pc = "parse"
    /\ BuilderIdle /\ ParseIdle

SpecIds == InitIds /\ [][NextTree]_vars

-----------------------------------------------------------------------------
(* One RegionCodes object, its file and the two pages. *)

\* pages the two sites can serve
SamplePages ==
    { <<>>,
      <<Cell(1, None, None), Cell(2, IdOf(1), None), Cell(3, IdOf(2), "NGA")>>,
      <<Cell(1, None, None), Cell(2, IdOf(1), None), Cell(3, IdOf(2), "NGA"),
        Cell(4, IdOf(2), "TCD")>>,
      <<Cell(1, None, None), Cell(2, IdOf(1), "GHA"), Cell(3, IdOf(1), "NGA")>> }

\* what a user can have left at regions_file_path
SampleFiles ==
    {AbsentFile, MalformedFile, UnreadableFile,
     YamlFile(("West" :> <<"NG", "GH">>)), YamlFile(EmptyDict)}

InitCache ==
    /\ cells \in SamplePages
    /\ alpha_2_codes \in Tables
    /\ file \in SampleFiles
    /\ self_dict = EmptyDict
    /\ io = NoIo
    /\ call = NoCall
    /\ calls = 0
    /\ TreeIdle /\ pc = "idle"
    /\ ParseIdle

\* obj.regions when the instance __dict__ holds it: __getattr__ is not called
ReadStored ==
    /\ calls < MaxCalls
    /\ "regions" \in DOMAIN self_dict
    /\ calls' = calls + 1
    /\ call' = [NoCall EXCEPT !.attr = "regions", !.via = "__dict__",
                              !.value = self_dict["regions"]]
    /\ UNCHANGED <<file, self_dict, io, treeVars, pageVars, parseVars>>

\* obj.regions when it does not: __getattr__('regions'), lines 43-52
GetAttrRegions ==
    /\ calls < MaxCalls
    /\ "regions" \notin DOMAIN self_dict
    /\ \E env \in Environments :
          LET did == get_regions(file, env, cells, alpha_2_codes)
          IN  /\ call' = [attr |-> "regions", via |-> "__getattr__",
                          raised |-> did.raised, exc |-> did.exc, value |-> did.value,
                          log |-> did.log,
                          load |-> did.load, generated |-> did.generated,
                          wrote |-> did.wrote, env |-> env]
              /\ file' = did.file
              /\ io' = [loads |-> io.loads + did.loads,
                        fetches |-> io.fetches + did.fetches,
                        writes |-> io.writes + did.writes]
              /\ self_dict' = IF did.raised THEN self_dict
                              ELSE store(self_dict, "regions", did.value)
    /\ calls' = calls + 1
    /\ UNCHANGED <<treeVars, pageVars, parseVars>>

\* any other missing attribute: AttributeError, lines 46-47
GetAttrOther ==
    /\ calls < MaxCalls
    /\ calls' = calls + 1
    /\ call' = [NoCall EXCEPT !.attr = "other", !.via = "__getattr__",
                              !.raised = TRUE, !.exc = "AttributeError"]
    /\ UNCHANGED <<file, self_dict, io, treeVars, pageVars, parseVars>>

\* the user deletes or renames the file, or edits it
InvalidateFile ==
    /\ file.kind # "absent"
    /\ file' = AbsentFile
    /\ UNCHANGED <<self_dict, io, call, calls, treeVars, pageVars, parseVars>>

EditFile ==
    /\ file.kind = "yaml"
    /\ file' \in {MalformedFile, YamlFile(("Mine" :> <<"NG">>))} \ {file}
    /\ UNCHANGED <<self_dict, io, call, calls, treeVars, pageVars, parseVars>>

NextCache == ReadStored \/ GetAttrRegions \/ GetAttrOther \/ InvalidateFile \/ EditFile

SpecCache == InitCache /\ [][NextCache]_vars

-----------------------------------------------------------------------------
(* One call of parse_single_number. *)

InitParse ==
    /\ phone_number \in PhoneNumbers
    /\ locale \in {NoLocale} \cup {LocaleList(l) : l \in LocaleLists(MaxLocales)}
    /\ final_result = NotParsed
    /\ cells = <<>> /\ alpha_2_codes = FullTable
    /\ TreeIdle /\ pc = "call"
    /\ BuilderIdle

ParseSingleNumber ==
    /\ pc = "call"
    /\ final_result' = parse_single_number(phone_number, locale)
    /\ pc' = "left"
    /\ UNCHANGED <<phone_number, locale, rows, out, regions, pageVars, builderVars>>

NextParse == ParseSingleNumber

SpecParse == InitParse /\ [][NextParse]_vars

-----------------------------------------------------------------------------
(* The hierarchy as the rows state it, read off the rows' parent ids (not   *)
(* off the registry the code builds).                                      *)

UniqueIds(rs) == \A i, j \in 1..Len(rs) : rs[i].id = rs[j].id => i = j

ParentsResolve(rs) ==
    \A i \in 1..Len(rs) :
        Truthy(rs[i].parent_id) => \E j \in 1..Len(rs) : rs[j].id = rs[i].parent_id

\* the ids of the rows that name `key` as their parent, in row order
RowChildren(rs, key) ==
    LET F[k \in 0..Len(rs)] ==
            IF k = 0 THEN <<>>
            ELSE IF Pid(rs[k]) = key THEN Append(F[k - 1], rs[k].id) ELSE F[k - 1]
    IN  F[Len(rs)]

RowIds(rs) == {rs[k].id : k \in 1..Len(rs)}

\* the row that last wrote the node of `id`
LastRow(rs, id) ==
    rs[CHOOSE k \in 1..Len(rs) :
          /\ rs[k].id = id
          /\ \A j \in 1..Len(rs) : rs[j].id = id => j <= k]

HasChildRow(rs, key) == \E k \in 1..Len(rs) : Pid(rs[k]) = key

RECURSIVE Closure(_, _)
Closure(rs, S) ==
    LET T == S \cup {rs[k].id : k \in {j \in 1..Len(rs) : Pid(rs[j]) \in S}}
    IN  IF T = S THEN S ELSE Closure(rs, T)

\* the ids below `key`: its child rows, their child rows, ...
Below(rs, key) == Closure(rs, {rs[k].id : k \in {j \in 1..Len(rs) : Pid(rs[j]) = key}})

\* the first row without a parent: the node the code calls world_tree
TopRows(rs) == {k \in 1..Len(rs) : Pid(rs[k]) = RootKey}

WorldId(rs) == rs[CHOOSE k \in TopRows(rs) : \A j \in TopRows(rs) : k <= j].id

\* the alpha-2 codes of the rows at or below `id`
CodesAtOrBelow(rs, id) ==
    {LastRow(rs, d).alpha2 : d \in {e \in {id} \cup Below(rs, id) :
                                        Truthy(LastRow(rs, e).alpha2)}}

\* a leaf's contribution to its parent's list
LeafCodes(node) == IF Truthy(node.alpha2) THEN <<node.alpha2>> ELSE <<>>

\* concatenation over the children of: the child's entry of the map when the
\* child has children, the child's own code when it has none
RECURSIVE ConcatEntries(_, _, _, _)
ConcatEntries(o, m, children, k) ==
    IF k > Len(children) THEN <<>>
    ELSE LET c == o[children[k]]
         IN  (IF Len(c.children) > 0 THEN m[c.name] ELSE LeafCodes(c))
                \o ConcatEntries(o, m, children, k + 1)

\* the nodes of the registry that carry a key of the map
KeyNodes(o, m) == {id \in DOMAIN o : "name" \in DOMAIN o[id] /\ o[id].name \in DOMAIN m}

Built == pc \in {"flatten", "done", "IndexError", "RecursionError"}

Reverse(s) == [k \in 1..Len(s) |-> s[Len(s) + 1 - k]]

ChildSet(o, key) == IF key \in DOMAIN o THEN Range(o[key].children) ELSE {}

-----------------------------------------------------------------------------
(* C1 as stated: every node with a child row, the root's direct children   *)
(* included, is a key of the map.                                          *)
C1_AsStated ==
    pc = "done" =>
        \A id \in Below(rows, RootKey) :
            HasChildRow(rows, id) => LastRow(rows, id).name \in DOMAIN regions

(* C1 amended: the keys of the map are exactly the names of the nodes that *)
(* have a child and lie strictly below the first direct child of the root  *)
(* (that child itself, the other direct children of the root and their     *)
(* subtrees give no key), and each key's list holds exactly the codes of   *)
(* the rows at or below its node.                                          *)
C1_KeysBelowWorld ==
    pc = "done" =>
        /\ DOMAIN regions =
              {LastRow(rows, id).name :
                  id \in {d \in Below(rows, WorldId(rows)) : HasChildRow(rows, d)}}
        /\ \A id \in Below(rows, WorldId(rows)) :
              HasChildRow(rows, id) =>
                  Range(regions[LastRow(rows, id).name]) = CodesAtOrBelow(rows, id)

\* a three-level hierarchy World -> Africa -> Nigeria was flattened
C1_Witness ==
    /\ pc = "done"
    /\ Len(rows) = 3
    /\ rows[1].parent_id = None /\ rows[1].alpha2 = None
    /\ rows[2].parent_id = rows[1].id /\ rows[2].alpha2 = None
    /\ rows[3].parent_id = rows[2].id /\ rows[3].alpha2 = "NG"
    /\ UniqueIds(rows)
    /\ regions = ("Africa" :> <<"NG">>)

(* C2 as stated: the list of every key equals the concatenation over its   *)
(* node's children of the child's code (leaf) or the child's list          *)
(* (internal); the node's own code is no part of it.                       *)
C2_AsStated ==
    pc = "done" =>
        \A id \in KeyNodes(out, regions) :
            regions[out[id].name] = ConcatEntries(out, regions, out[id].children, 1)

(* C2 amended: the list of every key is the node's own code, when it has   *)
(* one, followed by the concatenation, in child order, over its children   *)
(* of the child's code (leaf with a code), nothing (leaf without one) or   *)
(* the child's whole list (internal).                                      *)
C2_OwnCodeThenChildren ==
    pc = "done" =>
        \A id \in KeyNodes(out, regions) :
            regions[out[id].name] =
                LeafCodes(out[id]) \o ConcatEntries(out, regions, out[id].children, 1)

\* an internal node that carries a code of its own, and an internal child,
\* were flattened
C2_Witness ==
    /\ pc = "done"
    /\ \E id \in KeyNodes(out, regions) :
          /\ Truthy(out[id].alpha2)
          /\ \E k \in 1..Len(out[id].children) :
                Len(out[out[id].children[k]].children) > 0

(* C6: for rows with unique ids whose parent ids all name a row, whatever  *)
(* the order of the rows, the registry holds one node per row, carrying    *)
(* the row's fields, every node's children are the rows that name it as    *)
(* parent, in row-encounter order, and the reversed row list gives the     *)
(* same children sets.                                                     *)
C6_OrderTolerant ==
    (Built /\ UniqueIds(rows) /\ ParentsResolve(rows)) =>
        /\ DOMAIN out = {RootKey} \cup RowIds(rows)
        /\ \A key \in DOMAIN out : out[key].children = RowChildren(rows, key)
        /\ \A k \in 1..Len(rows) :
              \A f \in DOMAIN rows[k] : out[rows[k].id][f] = rows[k][f]
        /\ \A key \in DOMAIN out :
              ChildSet(list_to_tree(Reverse(rows)), key) = ChildSet(out, key)

\* a child row came before its parent's row, and two siblings were linked
C6_Witness ==
    /\ Built /\ UniqueIds(rows) /\ ParentsResolve(rows)
    /\ \E i, j \in 1..Len(rows) : i < j /\ rows[i].parent_id = rows[j].id
    /\ \E key \in DOMAIN out : Len(out[key].children) >= 2

(* C7: no key of the map is the synthetic root's name, and every key is    *)
(* the name of a node other than the root that has at least one child.     *)
C7_KeysAreInternal ==
    pc = "done" =>
        \A name \in DOMAIN regions :
            /\ name # RootNode.root_name
            /\ \E id \in DOMAIN out \ {RootKey} :
                  /\ "name" \in DOMAIN out[id]
                  /\ out[id].name = name
                  /\ Len(out[id].children) > 0

\* a map with a key was produced from a tree that has a leaf below world_tree
C7_Witness ==
    /\ pc = "done"
    /\ regions # EmptyDict
    /\ \E id \in Below(rows, WorldId(rows)) : ~HasChildRow(rows, id)

(* C8: every code of every list is a value of the alpha-3 -> alpha-2       *)
(* table; a row without an alpha-3 code, or with one the table lacks, gets *)
(* no alpha-2 code, adds nothing to any list, and takes nothing away: each *)
(* list holds exactly the table's codes of the rows at or below its node;  *)
(* the build raises only when no row is a direct child of the root.        *)
C8_CodesFromTable ==
    /\ \A name \in DOMAIN regions :
          \A k \in 1..Len(regions[name]) : regions[name][k] \in Range(alpha_2_codes)
    /\ \A k \in 1..Len(rows) :
          rows[k].alpha2 = IF cells[k].alpha3 \in DOMAIN alpha_2_codes
                           THEN alpha_2_codes[cells[k].alpha3] ELSE None
    /\ pc = "done" =>
          \A id \in KeyNodes(out, regions) :
              Range(regions[out[id].name]) =
                  {alpha_2_codes[LastRow(rows, d).alpha3] :
                      d \in {e \in {id} \cup Below(rows, id) :
                                LastRow(rows, e).alpha3 \in DOMAIN alpha_2_codes}}
    /\ pc = "IndexError" => TopRows(rows) = {}

\* a row whose alpha-3 code the table lacks sits beside a sibling whose code
\* reached a list
C8_Witness ==
    /\ pc = "done"
    /\ \E i, j \in 1..Len(rows) :
          /\ i # j
          /\ Pid(rows[i]) = Pid(rows[j])
          /\ rows[i].id # rows[j].id
          /\ rows[i].alpha3 # None /\ rows[i].alpha3 \notin DOMAIN alpha_2_codes
          /\ rows[j].alpha2 # None
          /\ \E name \in DOMAIN regions : rows[j].alpha2 \in Range(regions[name])

\* how often `id` occurs in the children lists of the registry
Occurrences(o, id) ==
    Cardinality({<<key, k>> \in UNION {{key2} \X (1..Len(o[key2].children)) : key2 \in DOMAIN o} :
                    o[key].children[k] = id})

\* some row is its own ancestor
HasCycle(rs) == \E k \in 1..Len(rs) : rs[k].id \in Below(rs, rs[k].id)

(* C9: for rows with pairwise distinct ids (none of them the root marker), *)
(* every row's node sits in exactly one children list and the root in      *)
(* none, and the flatten never recurses without end, also when parent ids  *)
(* form a cycle.                                                           *)
C9_Terminates ==
    (Built /\ UniqueIds(rows)) =>
        /\ pc # "RecursionError"
        /\ \A id \in RowIds(rows) : Occurrences(out, id) = 1
        /\ Occurrences(out, RootKey) = 0

\* rows with distinct ids, one of them its own ancestor, were flattened
C9_Witness ==
    /\ pc = "done"
    /\ UniqueIds(rows)
    /\ HasCycle(rows)
    /\ regions # EmptyDict

-----------------------------------------------------------------------------
(* Claims about the RegionCodes object.                                    *)

\* a read of the regions attribute that went through __getattr__
RegionsLookup == calls' = calls + 1 /\ call'.attr = "regions" /\ call'.via = "__getattr__"

LoadFails(f) == f.kind # "yaml"

\* the map a generation from the current pages gives
FreshMap == scrape_regions(TRUE, cells, alpha_2_codes)

Logged(c, level) == \E k \in 1..Len(c.log) : c.log[k] = level

C3_Step ==
    RegionsLookup =>
        /\ call'.generated <=> LoadFails(file)
        /\ call'.load = (IF LoadFails(file) THEN "failed" ELSE "ok")
        /\ ~LoadFails(file) =>
              /\ ~call'.raised /\ call'.value = file.data
              /\ io'.fetches = io.fetches /\ io'.writes = io.writes
              /\ file' = file
        /\ LoadFails(file) =>
              /\ Logged(call', "warning")
              /\ io'.fetches > io.fetches
              /\ call'.exc \notin {"FileNotFoundError", "PermissionError", "YAMLError"}
              /\ ~call'.raised => call'.value = FreshMap.value
              /\ (/\ call'.env.alpha_up /\ call'.env.m49_up /\ call'.env.writable
                  /\ ~FreshMap.raised) => ~call'.raised

(* C3: a read of regions through __getattr__ runs a generation if and only *)
(* if loading the file fails.  When the load succeeds the file's map is    *)
(* returned and nothing is fetched or written.  When it fails (absent,     *)
(* malformed, unreadable) a warning is logged, the pages are fetched, the  *)
(* load failure is not raised, and the call gives what the generation      *)
(* gives: the fresh map whenever the generation goes through.              *)
C3_LoadOrGenerate == [][C3_Step]_vars

\* a load failed, and the call returned a freshly generated, non-empty map
C3_Witness ==
    /\ call.attr = "regions" /\ call.load = "failed"
    /\ call.generated /\ ~call.raised
    /\ call.value # EmptyDict
    /\ Logged(call, "warning")

(* C4 as stated: when the write of the generated map fails, the failure is *)
(* logged and the call still returns the generated map.                    *)
C4_AsStated ==
    call.wrote = "failed" =>
        /\ ~call.raised
        /\ call.value = FreshMap.value
        /\ Logged(call, "error") \/ Logged(call, "warning")
        /\ "regions" \in DOMAIN self_dict

C5_Step ==
    /\ (calls' = calls + 1 /\ call'.attr = "regions" /\ ~call'.raised) =>
          /\ "regions" \in DOMAIN self_dict'
          /\ self_dict'["regions"] = call'.value
    /\ "regions" \in DOMAIN self_dict =>
          /\ self_dict' = self_dict
          /\ io' = io
          /\ calls' = calls + 1 => file' = file
          /\ (calls' = calls + 1 /\ call'.attr = "regions") =>
                /\ ~call'.raised
                /\ call'.via = "__dict__"
                /\ call'.value = self_dict["regions"]

(* C5: once a read of regions has returned, the object holds the map it    *)
(* returned; every later read returns that same map and loads, fetches and *)
(* writes nothing, whether or not the file is deleted or edited meanwhile. *)
C5_Memoized == [][C5_Step]_vars

\* three reads of regions, the last two served from the first one's single
\* load-or-generate pass, with the file deleted after the first
C5_Witness ==
    /\ calls = 3
    /\ io.loads = 1
    /\ call.attr = "regions" /\ call.via = "__dict__"
    /\ call.value # EmptyDict
    /\ file = AbsentFile /\ io.writes = 1

-----------------------------------------------------------------------------
(* Claims about parse_single_number.                                       *)

\* the candidate locales for which the parse gives a valid number
Succeeding(number, locs) ==
    {k \in 1..Len(locs.items) : number.parses[locs.items[k]] = "valid"}

RecordOf(number, loc) ==
    [raw_input |-> number.text, assumed_local_locale |-> loc, comment |-> ""]

(* C10 as stated: for every number and every locale argument, None         *)
(* included, parse_single_number returns a record whose raw_input is the   *)
(* number: the locale-free parse's record when that parse succeeds, else   *)
(* the one successful candidate's record, else (zero or several successful *)
(* candidates) a record with the comment 'Needs manual review'.            *)
C10_AsStated ==
    pc = "left" =>
        /\ ~final_result.raised
        /\ final_result.value.raw_input = phone_number.text
        /\ phone_number.parses[None] = "valid" =>
              final_result.value = RecordOf(phone_number, None)
        /\ phone_number.parses[None] # "valid" =>
              LET ok == Succeeding(phone_number, locale)
              IN  IF Cardinality(ok) = 1
                  THEN \E k \in ok :
                          final_result.value = RecordOf(phone_number, locale.items[k])
                  ELSE final_result.value.comment = "Needs manual review"

=============================================================================
